---- MODULE Spec2Model ----
(***************************************************************************)
(* Model of fix_yahoo_finance/__init__.py: the crumb/cookie cache          *)
(* (get_yahoo_crumb), the CSV parser (parse_ticker_csv) and the batch      *)
(* download loop (download) with its progress bar.                         *)
(*                                                                         *)
(* Time advances only while a network request blocks; a request is issued  *)
(* at the value of `now` before the call and completes d seconds later.    *)
(***************************************************************************)
EXTENDS Integers, Sequences, FiniteSets, TLC

VARIABLES
    now,                \* wall clock, seconds (datetime.datetime.now())
    YAHOO_COOKIE,       \* _YAHOO_COOKIE_
    YAHOO_CRUMB,        \* _YAHOO_CRUMB_
    YAHOO_CHECKED,      \* _YAHOO_CHECKED_ (None or a time)
    pc,                 \* position of the (single) thread of control
    tickers,            \* download: the upper-cased ticker list
    as_panel, group_by, auto_adjust, progress,   \* download's arguments
    dfs,                \* download: dataframe collector
    round1_failed_tickers,
    round2_failed_tickers,
    i,                  \* index of the first-pass loop over tickers
    j,                  \* index of the round-2 loop over round1_failed_tickers
    crumb, cookie,      \* download's local credential pair
    elapsed,            \* ProgressBar.elapsed (None without a progress bar)
    data,               \* download's return value
    raised,             \* the exception that left download ("" if none)
    lastGet,            \* history: the last get_yahoo_crumb call
    lastReq,            \* history: the last download request issued
    outcomes,           \* history: how each symbol's first pass and round-2 retry ended
    status,             \* history: the state of each entry of tickers
    failedIdx,          \* history: the entries behind round1_failed_tickers, in order
    round2Refresh,      \* history: the refreshes made at line 169
    csv_str, csv_adjust, df    \* parse_ticker_csv: arguments and result

vars == <<now, YAHOO_COOKIE, YAHOO_CRUMB, YAHOO_CHECKED, pc, tickers,
          as_panel, group_by, auto_adjust, progress, dfs,
          round1_failed_tickers, round2_failed_tickers, i, j, crumb, cookie,
          elapsed, data, raised, lastGet, lastReq, outcomes, status,
          failedIdx, round2Refresh, csv_str, csv_adjust, df>>

cacheVars == <<YAHOO_COOKIE, YAHOO_CRUMB, YAHOO_CHECKED>>
argVars == <<tickers, as_panel, group_by, auto_adjust, progress>>
parseVars == <<csv_str, csv_adjust, df>>
histVars == <<status, failedIdx, round2Refresh>>

(***************************************************************************)
(* Bounds                                                                  *)
(***************************************************************************)
MaxTickers == 2         \* longest requested ticker list
MaxTime == 180          \* the clock stops advancing here
MaxLines == 2           \* lines in a bootstrap response body
MaxRows == 2            \* data rows in a CSV body

None == -1
NoTable == [ok |-> FALSE, exc |-> "", cols |-> <<>>, rows |-> <<>>]

Range(s) == {s[k] : k \in 1..Len(s)}

RECURSIVE SeqsUpTo(_, _)
SeqsUpTo(S, n) ==
    IF n = 0 THEN {<<>>}
    ELSE LET shorter == SeqsUpTo(S, n - 1)
         IN  shorter \cup {Append(s, x) : s \in {t \in shorter : Len(t) = n - 1}, x \in S}

(***************************************************************************)
(* Credential cache                                                        *)
(***************************************************************************)
YAHOO_TTL == 180

\* how long a blocking network request may take
Durations == {0, 90, YAHOO_TTL}

Cookies == {"b1", "b2"}
Crumbs == {"c1", "c2"}

\* a line of the bootstrap page: it carries a CrumbStore fragment or not
Lines == {[store |-> FALSE, crumb |-> ""]} \cup
         {[store |-> TRUE, crumb |-> c] : c \in Crumbs}

\* what requests.get of the bootstrap page can produce: an exception, a
\* response without cookie B, or a response with cookie B and a body
BootResponses ==
    {[kind |-> "neterr", B |-> "", text |-> <<>>]} \cup
    {[kind |-> "nocookie", B |-> "", text |-> <<>>]} \cup
    {[kind |-> "ok", B |-> b, text |-> t] : b \in Cookies, t \in SeqsUpTo(Lines, MaxLines)}

\* pattern.match(line): the captured crumb, or None
PatternMatch(line) == IF line.store THEN line.crumb ELSE "None"

\* the for loop over res.text.splitlines(): every matching line assigns
RECURSIVE ScanLines(_, _)
ScanLines(text, cur) ==
    IF text = <<>> THEN cur
    ELSE LET m == PatternMatch(Head(text))
         IN  ScanLines(Tail(text), IF m # "None" THEN m ELSE cur)

\* the crumbs on the lines of a body that carry a CrumbStore fragment
MatchingCrumbs(text) ==
    LET m == SelectSeq(text, LAMBDA line : line.store)
    IN  [n \in 1..Len(m) |-> m[n].crumb]

\* CacheValid with the age test off by one (<= for <)
CacheValid_inclusive(force) ==
    /\ YAHOO_CHECKED # None
    /\ ~force
    /\ now - YAHOO_CHECKED <= YAHOO_TTL

\* the cache test of get_yahoo_crumb
CacheValid(force) ==
    /\ YAHOO_CHECKED # None
    /\ ~force
    /\ now - YAHOO_CHECKED < YAHOO_TTL

\* ReadResponse with the stored crumb cleared before the scan
ReadResponse_reset(res, d) ==
    LET c == ScanLines(res.text, "")
    IN  [raised |-> "", requests |-> 1, now |-> now + d,
         assigned |-> {"_YAHOO_COOKIE_", "_YAHOO_CHECKED_"} \cup
                      IF \E k \in 1..Len(res.text) : PatternMatch(res.text[k]) # "None"
                      THEN {"_YAHOO_CRUMB_"} ELSE {},
         CRUMB |-> c, COOKIE |-> res.B, CHECKED |-> now + d,
         ret |-> <<c, res.B>>]

\* ReadResponse with the scan stopping at the first matching line
ReadResponse_first(res, d) ==
    LET c == IF MatchingCrumbs(res.text) = <<>> THEN YAHOO_CRUMB
             ELSE MatchingCrumbs(res.text)[1]
    IN  [raised |-> "", requests |-> 1, now |-> now + d,
         assigned |-> {"_YAHOO_COOKIE_", "_YAHOO_CHECKED_"} \cup
                      IF \E k \in 1..Len(res.text) : PatternMatch(res.text[k]) # "None"
                      THEN {"_YAHOO_CRUMB_"} ELSE {},
         CRUMB |-> c, COOKIE |-> res.B, CHECKED |-> now + d,
         ret |-> <<c, res.B>>]

\* ReadResponse with the time stamp set only when a crumb was found
ReadResponse_unstamped(res, d) ==
    LET c == ScanLines(res.text, YAHOO_CRUMB)
        found == \E k \in 1..Len(res.text) : PatternMatch(res.text[k]) # "None"
    IN  [raised |-> "", requests |-> 1, now |-> now + d,
         assigned |-> {"_YAHOO_COOKIE_"} \cup
                      IF found THEN {"_YAHOO_CRUMB_", "_YAHOO_CHECKED_"} ELSE {},
         CRUMB |-> c, COOKIE |-> res.B,
         CHECKED |-> IF found THEN now + d ELSE YAHOO_CHECKED,
         ret |-> <<c, res.B>>]

\* lines 53-64: the cookie, the scan of the body for the crumb, the time
\* stamp and the returned pair, once the bootstrap response res is there
ReadResponse(res, d) ==
    LET c == ScanLines(res.text, YAHOO_CRUMB)
    IN  [raised |-> "", requests |-> 1, now |-> now + d,
         assigned |-> {"_YAHOO_COOKIE_", "_YAHOO_CHECKED_"} \cup
                      IF \E k \in 1..Len(res.text) : PatternMatch(res.text[k]) # "None"
                      THEN {"_YAHOO_CRUMB_"} ELSE {},
         CRUMB |-> c, COOKIE |-> res.B, CHECKED |-> now + d,
         ret |-> <<c, res.B>>]

\* get_yahoo_crumb(force) when the bootstrap request, if made, yields res
\* after d seconds: the new cache, the clock, the number of bootstrap
\* requests made, the globals assigned, and the returned pair or the
\* exception raised
get_yahoo_crumb(force, res, d) ==
    IF CacheValid(force)
    THEN [raised |-> "", requests |-> 0, now |-> now, assigned |-> {},
          CRUMB |-> YAHOO_CRUMB, COOKIE |-> YAHOO_COOKIE, CHECKED |-> YAHOO_CHECKED,
          ret |-> <<YAHOO_CRUMB, YAHOO_COOKIE>>]
    ELSE IF res.kind = "neterr"
    THEN [raised |-> "ConnectionError", requests |-> 1, now |-> now + d, assigned |-> {},
          CRUMB |-> YAHOO_CRUMB, COOKIE |-> YAHOO_COOKIE, CHECKED |-> YAHOO_CHECKED,
          ret |-> <<"", "">>]
    ELSE IF res.kind = "nocookie"
    THEN [raised |-> "KeyError", requests |-> 1, now |-> now + d, assigned |-> {},
          CRUMB |-> YAHOO_CRUMB, COOKIE |-> YAHOO_COOKIE, CHECKED |-> YAHOO_CHECKED,
          ret |-> <<"", "">>]
    ELSE ReadResponse(res, d)

\* the history record of a get_yahoo_crumb call made by the last step: from
\* where and how it was called, how old the cache was, what the bootstrap
\* response held if there was one, and what the call did
GetRecord(site, force, res, g) ==
    LET read == g.requests = 1 /\ res.kind = "ok"
        crumbs == IF read THEN MatchingCrumbs(res.text) ELSE <<>>
    IN  [called |-> TRUE, site |-> site, force |-> force,
         age |-> IF YAHOO_CHECKED = None THEN None ELSE now - YAHOO_CHECKED,
         requests |-> g.requests, raised |-> g.raised,
         read |-> read,
         first |-> IF crumbs = <<>> THEN "" ELSE crumbs[1],
         last |-> IF crumbs = <<>> THEN "" ELSE crumbs[Len(crumbs)],
         assigned |-> g.assigned,
         unchanged |-> <<g.CRUMB, g.COOKIE, g.CHECKED>> = <<YAHOO_CRUMB, YAHOO_COOKIE, YAHOO_CHECKED>>,
         retOld |-> g.ret = <<YAHOO_CRUMB, YAHOO_COOKIE>>,
         retNew |-> g.ret = <<g.CRUMB, g.COOKIE>>]

NoGet == [called |-> FALSE, site |-> "", force |-> FALSE, age |-> None,
          requests |-> 0, raised |-> "", read |-> FALSE,
          first |-> "", last |-> "", assigned |-> {},
          unchanged |-> TRUE, retOld |-> TRUE, retNew |-> TRUE]

(***************************************************************************)
(* parse_ticker_csv                                                        *)
(***************************************************************************)
NaN == -1               \* np.nan (prices and volumes are never negative)

StdHeader == <<"Date", "Open", "High", "Low", "Close", "Adj Close", "Volume">>
\* the JSON error document the server answers a rejected request with
ErrHeader == <<"{finance:{result:null", "error:{code:Unauthorized", "description:Invalid cookie}}}">>

RECURSIVE SelectSeq2(_, _)
\* the elements of s that are in S, in the order of s
SelectSeq2(s, S) ==
    IF s = <<>> THEN <<>>
    ELSE IF Head(s) \in S THEN <<Head(s)>> \o SelectSeq2(Tail(s), S)
    ELSE SelectSeq2(Tail(s), S)

\* text pandas reads as a missing value
IsNAText(s) == s \in {"", "null", "NaN"}

\* pd.to_datetime of an index label
to_datetime(s) ==
    CASE s = "2020-01-02" -> 20200102
      [] s = "2020-01-03" -> 20200103
      [] s = "2020-01-06" -> 20200106
      [] OTHER -> NaN

IsNumeral(s) == s \in {"0", "1", "2", "4", "8", "1000", "NaN"}

\* pd.to_numeric of one cell
to_numeric(s) ==
    CASE s = "0" -> 0
      [] s = "1" -> 1
      [] s = "2" -> 2
      [] s = "4" -> 4
      [] s = "8" -> 8
      [] s = "1000" -> 1000
      [] OTHER -> NaN

\* pd.read_csv(csv_str, index_col=0, error_bad_lines=False): lines with too
\* many fields are skipped, short lines are padded with missing values,
\* and missing-value text becomes NaN
read_csv(body) ==
    LET width == Len(body.header)
        cols == Tail(body.header)
        good == SelectSeq(body.rows, LAMBDA r : Len(r) <= width /\ Len(r) >= 1)
        field(r, k) == IF k <= Len(r) /\ ~IsNAText(r[k]) THEN r[k] ELSE "NaN"
    IN  [cols |-> cols,
         rows |-> [n \in 1..Len(good) |->
                     [idx |-> good[n][1],
                      cell |-> [c \in Range(cols) |->
                                  field(good[n], 1 + CHOOSE k \in 1..Len(cols) : cols[k] = c)]]]]

\* DataFrame.replace('null', np.nan)
replace_null(t) ==
    [t EXCEPT !.rows = [n \in 1..Len(t.rows) |->
        [t.rows[n] EXCEPT !.cell = [c \in DOMAIN t.rows[n].cell |->
            IF t.rows[n].cell[c] = "null" THEN "NaN" ELSE t.rows[n].cell[c]]]]]

\* DataFrame.dropna(): rows with a missing value in any column go
dropna(t) ==
    [t EXCEPT !.rows = SelectSeq(t.rows, LAMBDA r : \A c \in DOMAIN r.cell : r.cell[c] # "NaN")]

\* df[name] = vals: a new column, one value per row, appended after the
\* existing ones
AddColumn(t, name, vals) ==
    [cols |-> Append(t.cols, name),
     rows |-> [n \in 1..Len(t.rows) |->
                 [idx |-> t.rows[n].idx,
                  cell |-> [c \in Range(t.cols) \cup {name} |->
                              IF c = name THEN vals[n] ELSE t.rows[n].cell[c]]]]]

\* df[col] / ratio with ratio = df["Close"] / df["Adj Close"], row by row;
\* the quotient is exact for the prices used here (powers of two)
DivideByRatio(t, col) ==
    [n \in 1..Len(t.rows) |->
        (t.rows[n].cell[col] * t.rows[n].cell["Adj Close"]) \div t.rows[n].cell["Close"]]

\* DataFrame.drop(names, axis=1)
DropColumns(t, names) ==
    [cols |-> SelectSeq2(t.cols, Range(t.cols) \ names),
     rows |-> [n \in 1..Len(t.rows) |->
                 [idx |-> t.rows[n].idx,
                  cell |-> [c \in Range(t.cols) \ names |-> t.rows[n].cell[c]]]]]

\* DataFrame.rename(columns={old: new})
RenameColumn(t, old, new) ==
    IF old \notin Range(t.cols) THEN t
    ELSE [cols |-> [k \in 1..Len(t.cols) |-> IF t.cols[k] = old THEN new ELSE t.cols[k]],
          rows |-> [n \in 1..Len(t.rows) |->
                      [idx |-> t.rows[n].idx,
                       cell |-> [c \in (Range(t.cols) \ {old}) \cup {new} |->
                                   IF c = new THEN t.rows[n].cell[old] ELSE t.rows[n].cell[c]]]]]

\* df[[names]]: the named columns in the order given
SelectColumns(t, names) ==
    [cols |-> names,
     rows |-> [n \in 1..Len(t.rows) |->
                 [idx |-> t.rows[n].idx,
                  cell |-> [c \in Range(names) |-> t.rows[n].cell[c]]]]]

AdjustedColumns == <<"Open", "High", "Low", "Close", "Volume">>
RawColumns == <<"Open", "High", "Low", "Close", "Adj Close", "Volume">>

\* Adjust without the final column selection of line 90
Adjust_unordered(t) ==
    LET a1 == AddColumn(t, "Adj Open", DivideByRatio(t, "Open"))
        a2 == AddColumn(a1, "Adj High", DivideByRatio(t, "High"))
        a3 == AddColumn(a2, "Adj Low", DivideByRatio(t, "Low"))
        d == DropColumns(a3, {"Open", "High", "Low", "Close"})
        r1 == RenameColumn(d, "Adj Open", "Open")
        r2 == RenameColumn(r1, "Adj High", "High")
        r3 == RenameColumn(r2, "Adj Low", "Low")
    IN  RenameColumn(r3, "Adj Close", "Close")

\* the auto_adjust branch of parse_ticker_csv (lines 76-90)
Adjust(t) ==
    LET a1 == AddColumn(t, "Adj Open", DivideByRatio(t, "Open"))
        a2 == AddColumn(a1, "Adj High", DivideByRatio(t, "High"))
        a3 == AddColumn(a2, "Adj Low", DivideByRatio(t, "Low"))
        d == DropColumns(a3, {"Open", "High", "Low", "Close"})
        r1 == RenameColumn(d, "Adj Open", "Open")
        r2 == RenameColumn(r1, "Adj High", "High")
        r3 == RenameColumn(r2, "Adj Low", "Low")
        r4 == RenameColumn(r3, "Adj Close", "Close")
    IN  SelectColumns(r4, AdjustedColumns)

\* parse_ticker_csv(csv_str, auto_adjust): the table, or the exception raised
parse_ticker_csv(body, adjust) ==
    IF body.header = <<>> THEN [NoTable EXCEPT !.exc = "EmptyDataError"]
    ELSE
    LET raw == dropna(replace_null(read_csv(body)))
        numeric == \A n \in 1..Len(raw.rows) : \A c \in DOMAIN raw.rows[n].cell :
                       IsNumeral(raw.rows[n].cell[c])
        num == [cols |-> raw.cols,
                rows |-> [n \in 1..Len(raw.rows) |->
                            [idx |-> to_datetime(raw.rows[n].idx),
                             cell |-> [c \in DOMAIN raw.rows[n].cell |->
                                         to_numeric(raw.rows[n].cell[c])]]]]
        vol == [num EXCEPT !.rows = [n \in 1..Len(num.rows) |->
                   [num.rows[n] EXCEPT !.cell["Volume"] =
                       IF @ = NaN THEN 0 ELSE @]]]
    IN  IF ~numeric THEN [NoTable EXCEPT !.exc = "ValueError"]
        ELSE IF "Volume" \notin Range(raw.cols) THEN [NoTable EXCEPT !.exc = "KeyError"]
        ELSE IF ~adjust THEN [ok |-> TRUE, exc |-> "", cols |-> vol.cols, rows |-> vol.rows]
        ELSE IF ~(Range(RawColumns) \subseteq Range(vol.cols))
             THEN [NoTable EXCEPT !.exc = "KeyError"]
        ELSE LET a == Adjust(vol)
             IN  [ok |-> TRUE, exc |-> "", cols |-> a.cols, rows |-> a.rows]

(***************************************************************************)
(* download                                                                *)
(***************************************************************************)
Symbols == {"a", "A", "B"}

\* str.upper()
upper(x) ==
    CASE x = "a" -> "A"
      [] x = "b" -> "B"
      [] OTHER -> x

\* the tickers argument: a bare symbol or a non-empty list
TickerArgs ==
    [isList : {FALSE}, value : Symbols] \cup
    [isList : {TRUE}, value : SeqsUpTo(Symbols, MaxTickers) \ {<<>>}]

\* tickers if isinstance(tickers, list) else [tickers], then upper-cased
TickerList(arg) ==
    LET l == IF arg.isList THEN arg.value ELSE <<arg.value>>
    IN  [k \in 1..Len(l) |-> upper(l[k])]

GoodBody(close, adj) ==
    [header |-> StdHeader,
     rows |-> << <<"2020-01-02", "4", "4", "2", close, adj, "1000">> >>]
ErrorBody == [header |-> ErrHeader, rows |-> <<>>]

\* what requests.get(url, cookies=...).text can produce for a ticker: an
\* exception, the server's error document, or price history
FetchResponses ==
    {[kind |-> "neterr", body |-> ErrorBody]} \cup
    {[kind |-> "ok", body |-> b] : b \in {ErrorBody, GoodBody("4", "2")}}

\* the body of one try block: request, parse, store
Fetch(resp) ==
    IF resp.kind = "neterr" THEN [NoTable EXCEPT !.exc = "ConnectionError"]
    ELSE parse_ticker_csv(resp.body, auto_adjust)

NoExc == [exc |-> "", line |-> 0]
NoData == [kind |-> "none", value |-> <<>>]
NoReq == [issued |-> FALSE, kind |-> "", ticker |-> "", entry |-> 0,
          crumb |-> "", cookie |-> "", age |-> None]

\* a download request as the last step issued it for an entry of tickers,
\* with the credentials it carries and their age at that moment
Request(kind, ticker, entry) ==
    [issued |-> TRUE, kind |-> kind, ticker |-> ticker, entry |-> entry,
     crumb |-> crumb, cookie |-> cookie,
     age |-> IF YAHOO_CHECKED = None THEN None ELSE now - YAHOO_CHECKED]

\* the history record of how a stage ended for a symbol: stage "pass1" is the
\* first attempt with its immediate retry, stage "round2" the round-2 retry
Outcome(ticker, stage, ok) == [sym |-> ticker, stage |-> stage, ok |-> ok]

\* dfs[ticker] = table
Store(ticker, table) ==
    [t \in DOMAIN dfs \cup {ticker} |-> IF t = ticker THEN table ELSE dfs[t]]

\* Round2Result with the append outside the except clause: every retried
\* ticker is recorded as failed
Round2Result_always_failed(ticker, t) ==
    IF t.ok
    THEN [dfs |-> Store(ticker, t), failed |-> Append(round2_failed_tickers, ticker)]
    ELSE [dfs |-> dfs, failed |-> Append(round2_failed_tickers, ticker)]

\* Round2Result with a failed retry leaving an empty table under the key
Round2Result_placeholder(ticker, t) ==
    IF t.ok
    THEN [dfs |-> Store(ticker, t), failed |-> round2_failed_tickers]
    ELSE [dfs |-> Store(ticker, [NoTable EXCEPT !.ok = TRUE]),
          failed |-> Append(round2_failed_tickers, ticker)]

\* lines 171-180: the try/except of a round-2 retry that produced t
Round2Result(ticker, t) ==
    IF t.ok
    THEN [dfs |-> Store(ticker, t), failed |-> round2_failed_tickers]
    ELSE [dfs |-> dfs, failed |-> Append(round2_failed_tickers, ticker)]

\* pbar.animate() under `if progress`
animate == IF progress THEN elapsed + 1 ELSE elapsed

ApplyGet(g) ==
    /\ now' = g.now
    /\ YAHOO_CRUMB' = g.CRUMB
    /\ YAHOO_COOKIE' = g.COOKIE
    /\ YAHOO_CHECKED' = g.CHECKED

\* NextTicker with round 2 opened as soon as a ticker has failed, the rest
\* of the list still unvisited
NextTicker_early(failed) ==
    /\ i' = i + 1
    /\ pc' = IF Len(failed) > 0 THEN "round2_get"
             ELSE IF i + 1 <= Len(tickers) THEN "first_get"
             ELSE "build"

\* NextTicker without the advance to the next entry: the loop fetches the
\* same entry again
NextTicker_repeat(failed) ==
    /\ i' = i
    /\ pc' = "first_get"

\* the end of one iteration of the first-pass loop, failed being the new
\* round1_failed_tickers
NextTicker(failed) ==
    /\ i' = i + 1
    /\ pc' = IF i + 1 <= Len(tickers) THEN "first_get"
             ELSE IF Len(failed) > 0 THEN "round2_get"
             ELSE "build"

Init ==
    /\ now = 0
    /\ YAHOO_COOKIE = ""
    /\ YAHOO_CRUMB = ""
    /\ YAHOO_CHECKED = None
    /\ pc = "idle"
    /\ tickers = <<>>
    /\ as_panel = TRUE
    /\ group_by = "column"
    /\ auto_adjust = FALSE
    /\ progress = TRUE
    /\ dfs = [t \in {} |-> NoTable]
    /\ round1_failed_tickers = <<>>
    /\ round2_failed_tickers = <<>>
    /\ i = 0
    /\ j = 0
    /\ crumb = ""
    /\ cookie = ""
    /\ elapsed = None
    /\ data = NoData
    /\ raised = NoExc
    /\ lastGet = NoGet
    /\ lastReq = NoReq
    /\ outcomes = {}
    /\ status = <<>>
    /\ failedIdx = <<>>
    /\ round2Refresh = <<>>
    /\ csv_str = [header |-> <<>>, rows |-> <<>>]
    /\ csv_adjust = FALSE
    /\ df = NoTable

\* time passes between two calls of the API
Wait ==
    /\ pc = "idle"
    /\ \E d \in Durations \ {0} :
        /\ now + d <= MaxTime
        /\ now' = now + d
    /\ lastGet' = NoGet
    /\ lastReq' = NoReq
    /\ UNCHANGED <<cacheVars, pc, argVars, dfs, round1_failed_tickers,
                   round2_failed_tickers, i, j, crumb, cookie, elapsed, data,
                   raised, outcomes, parseVars,
                   histVars>>

\* get_yahoo_crumb(force) called from outside download
GetCrumbCall ==
    /\ pc = "idle"
    /\ \E force \in BOOLEAN, res \in BootResponses, d \in Durations :
        /\ now + d <= MaxTime
        /\ LET g == get_yahoo_crumb(force, res, d)
           IN  /\ ApplyGet(g)
               /\ lastGet' = GetRecord("api", force, res, g)
    /\ lastReq' = NoReq
    /\ UNCHANGED <<pc, argVars, dfs, round1_failed_tickers,
                   round2_failed_tickers, i, j, crumb, cookie, elapsed, data,
                   raised, outcomes, parseVars,
                   histVars>>

\* download(...) up to the first-pass loop (lines 95-135)
Download ==
    /\ pc = "idle"
    /\ \E arg \in TickerArgs :
        tickers' = TickerList(arg)
    /\ auto_adjust' \in BOOLEAN
    /\ progress' \in BOOLEAN
    /\ elapsed' = IF progress' THEN 1 ELSE None
    /\ dfs' = [t \in {} |-> NoTable]
    /\ round1_failed_tickers' = <<>>
    /\ round2_failed_tickers' = <<>>
    /\ i' = 1
    /\ status' = [k \in 1..Len(tickers') |-> "Pending"]
    /\ failedIdx' = <<>>
    /\ round2Refresh' = <<>>
    /\ pc' = "first_get"
    /\ lastGet' = NoGet
    /\ lastReq' = NoReq
    /\ UNCHANGED <<now, cacheVars, as_panel, group_by, j, crumb, cookie, data,
                   raised, outcomes, parseVars>>

\* line 141: crumb, cookie = get_yahoo_crumb(), outside any try
FirstGet ==
    /\ pc = "first_get"
    /\ \E res \in BootResponses, d \in Durations :
        /\ now + d <= MaxTime
        /\ LET g == get_yahoo_crumb(FALSE, res, d)
           IN  /\ ApplyGet(g)
               /\ lastGet' = GetRecord("first", FALSE, res, g)
               /\ IF g.raised # ""
                  THEN /\ pc' = "raised"
                       /\ raised' = [exc |-> g.raised, line |-> 141]
                       /\ UNCHANGED <<crumb, cookie>>
                  ELSE /\ pc' = "first_try"
                       /\ crumb' = g.ret[1]
                       /\ cookie' = g.ret[2]
                       /\ UNCHANGED raised
    /\ lastReq' = NoReq
    /\ UNCHANGED <<argVars, dfs, round1_failed_tickers,
                   round2_failed_tickers, i, j, elapsed, data, outcomes,
                   parseVars,
                   histVars>>

\* lines 144-150: the first attempt
FirstTry ==
    /\ pc = "first_try"
    /\ \E resp \in FetchResponses, d \in Durations :
        /\ now + d <= MaxTime
        /\ now' = now + d
        /\ lastReq' = Request("first", tickers[i], i)
        /\ LET t == Fetch(resp)
           IN  IF t.ok
               THEN /\ dfs' = Store(tickers[i], t)
                    /\ elapsed' = animate
                    /\ outcomes' = outcomes \cup {Outcome(tickers[i], "pass1", TRUE)}
                    /\ status' = [status EXCEPT ![i] = "Succeeded"]
                    /\ NextTicker(round1_failed_tickers)
               ELSE /\ pc' = "retry_get"
                    /\ status' = [status EXCEPT ![i] = "Retrying"]
                    /\ UNCHANGED <<dfs, elapsed, i, outcomes>>
    /\ lastGet' = NoGet
    /\ UNCHANGED <<cacheVars, argVars, round1_failed_tickers,
                   round2_failed_tickers, j, crumb, cookie, data, raised,
                   parseVars,
                   failedIdx, round2Refresh>>

\* lines 153-156 and 163-164: the forced refresh of the immediate retry,
\* inside the inner try
RetryGet ==
    /\ pc = "retry_get"
    /\ \E res \in BootResponses, d \in Durations :
        /\ now + d <= MaxTime
        /\ LET g == get_yahoo_crumb(TRUE, res, d)
           IN  /\ ApplyGet(g)
               /\ lastGet' = GetRecord("retry", TRUE, res, g)
               /\ IF g.raised # ""
                  THEN /\ round1_failed_tickers' = Append(round1_failed_tickers, tickers[i])
                       /\ status' = [status EXCEPT ![i] = "FailedRound1"]
                       /\ failedIdx' = Append(failedIdx, i)
                       /\ outcomes' = outcomes \cup {Outcome(tickers[i], "pass1", FALSE)}
                       /\ NextTicker(round1_failed_tickers')
                       /\ UNCHANGED <<crumb, cookie>>
                  ELSE /\ pc' = "retry_try"
                       /\ crumb' = g.ret[1]
                       /\ cookie' = g.ret[2]
                       /\ UNCHANGED <<round1_failed_tickers, i, outcomes,
                                      status, failedIdx>>
    /\ lastReq' = NoReq
    /\ UNCHANGED <<argVars, dfs, round2_failed_tickers, j, elapsed, data,
                   raised, parseVars,
                   round2Refresh>>

\* RetryTry without the inner try/except: a failed retry leaves download
RetryTry_uncaught ==
    /\ pc = "retry_try"
    /\ \E resp \in FetchResponses, d \in Durations :
        /\ now + d <= MaxTime
        /\ now' = now + d
        /\ lastReq' = Request("retry", tickers[i], i)
        /\ LET t == Fetch(resp)
           IN  IF t.ok
               THEN /\ dfs' = Store(tickers[i], t)
                    /\ status' = [status EXCEPT ![i] = "Succeeded"]
                    /\ UNCHANGED failedIdx
                    /\ elapsed' = animate
                    /\ outcomes' = outcomes \cup {Outcome(tickers[i], "pass1", TRUE)}
                    /\ NextTicker(round1_failed_tickers)
                    /\ UNCHANGED raised
               ELSE /\ outcomes' = outcomes \cup {Outcome(tickers[i], "pass1", FALSE)}
                    /\ UNCHANGED <<status, failedIdx>>
                    /\ pc' = "raised"
                    /\ raised' = [exc |-> t.exc, line |-> 158]
                    /\ UNCHANGED <<dfs, elapsed, i>>
    /\ lastGet' = NoGet
    /\ UNCHANGED <<cacheVars, argVars, round1_failed_tickers,
                   round2_failed_tickers, j, crumb, cookie, data, parseVars,
                   round2Refresh>>

\* lines 157-165: the immediate retry
RetryTry ==
    /\ pc = "retry_try"
    /\ \E resp \in FetchResponses, d \in Durations :
        /\ now + d <= MaxTime
        /\ now' = now + d
        /\ lastReq' = Request("retry", tickers[i], i)
        /\ LET t == Fetch(resp)
           IN  IF t.ok
               THEN /\ dfs' = Store(tickers[i], t)
                    /\ status' = [status EXCEPT ![i] = "Succeeded"]
                    /\ UNCHANGED failedIdx
                    /\ elapsed' = animate
                    /\ outcomes' = outcomes \cup {Outcome(tickers[i], "pass1", TRUE)}
                    /\ UNCHANGED round1_failed_tickers
               ELSE /\ round1_failed_tickers' = Append(round1_failed_tickers, tickers[i])
                    /\ status' = [status EXCEPT ![i] = "FailedRound1"]
                    /\ failedIdx' = Append(failedIdx, i)
                    /\ outcomes' = outcomes \cup {Outcome(tickers[i], "pass1", FALSE)}
                    /\ UNCHANGED <<dfs, elapsed>>
        /\ NextTicker(round1_failed_tickers')
    /\ lastGet' = NoGet
    /\ UNCHANGED <<cacheVars, argVars, round2_failed_tickers, j, crumb,
                   cookie, data, raised, parseVars,
                   round2Refresh>>

\* Round2Get with the refreshed pair discarded: round 2 goes on with the
\* pair of the last first-pass call
Round2Get_discarded ==
    /\ pc = "round2_get"
    /\ \E res \in BootResponses, d \in Durations :
        /\ now + d <= MaxTime
        /\ LET g == get_yahoo_crumb(TRUE, res, d)
           IN  /\ ApplyGet(g)
               /\ lastGet' = GetRecord("round2", TRUE, res, g)
               /\ round2Refresh' = Append(round2Refresh, [raised |-> g.raised, ret |-> g.ret])
               /\ IF g.raised # ""
                  THEN /\ pc' = "raised"
                       /\ raised' = [exc |-> g.raised, line |-> 169]
                       /\ UNCHANGED <<crumb, cookie, j>>
                  ELSE /\ pc' = "round2_try"
                       /\ UNCHANGED <<crumb, cookie>>
                       /\ j' = 1
                       /\ UNCHANGED raised
    /\ lastReq' = NoReq
    /\ UNCHANGED <<argVars, dfs, round1_failed_tickers,
                   round2_failed_tickers, i, elapsed, data, outcomes,
                   parseVars,
                   status, failedIdx>>

\* lines 168-169: the forced refresh that opens round 2, outside any try
Round2Get ==
    /\ pc = "round2_get"
    /\ \E res \in BootResponses, d \in Durations :
        /\ now + d <= MaxTime
        /\ LET g == get_yahoo_crumb(TRUE, res, d)
           IN  /\ ApplyGet(g)
               /\ lastGet' = GetRecord("round2", TRUE, res, g)
               /\ round2Refresh' = Append(round2Refresh, [raised |-> g.raised, ret |-> g.ret])
               /\ IF g.raised # ""
                  THEN /\ pc' = "raised"
                       /\ raised' = [exc |-> g.raised, line |-> 169]
                       /\ UNCHANGED <<crumb, cookie, j>>
                  ELSE /\ pc' = "round2_try"
                       /\ crumb' = g.ret[1]
                       /\ cookie' = g.ret[2]
                       /\ j' = 1
                       /\ UNCHANGED raised
    /\ lastReq' = NoReq
    /\ UNCHANGED <<argVars, dfs, round1_failed_tickers,
                   round2_failed_tickers, i, elapsed, data, outcomes,
                   parseVars,
                   status, failedIdx>>

\* lines 170-181: one iteration of the round-2 loop
Round2Try ==
    /\ pc = "round2_try"
    /\ \E resp \in FetchResponses, d \in Durations :
        /\ now + d <= MaxTime
        /\ now' = now + d
        /\ lastReq' = Request("round2", round1_failed_tickers[j], failedIdx[j])
        /\ LET ticker == round1_failed_tickers[j]
               t == Fetch(resp)
               r == Round2Result(ticker, t)
           IN  /\ dfs' = r.dfs
               /\ round2_failed_tickers' = r.failed
               /\ elapsed' = IF t.ok THEN animate ELSE elapsed
               /\ outcomes' = outcomes \cup {Outcome(ticker, "round2", t.ok)}
               /\ status' = [status EXCEPT ![failedIdx[j]] =
                                IF t.ok THEN "Succeeded" ELSE "FailedRound2"]
    /\ j' = j + 1
    /\ pc' = IF j + 1 <= Len(round1_failed_tickers) THEN "round2_try" ELSE "build"
    /\ lastGet' = NoGet
    /\ UNCHANGED <<cacheVars, argVars, round1_failed_tickers, i, crumb,
                   cookie, data, raised, parseVars,
                   failedIdx, round2Refresh>>

\* the field axis of the succeeded tables taken together
AllFields == UNION {Range(dfs[t].cols) : t \in DOMAIN dfs}

\* pd.Panel(dfs), with swapaxes(0, 2) for group_by == 'column': one item per
\* key of dfs, the minor axis is the union of the tables' columns
Panel(gb) ==
    [kind |-> "Panel",
     value |-> [outer |-> IF gb = "column" THEN "field" ELSE "ticker",
                keys |-> {<<t, f>> : t \in DOMAIN dfs, f \in AllFields},
                src |-> dfs]]

\* the field list of lines 201-205
FieldList == IF auto_adjust THEN AdjustedColumns ELSE RawColumns

\* pd.concat(dfs.values(), axis=1, keys=dfs.keys()) and, for group_by ==
\* 'column', the swap of the column levels and the selection of FieldList
Concat(gb) ==
    LET pairs == {p \in (DOMAIN dfs) \X AllFields : p[2] \in Range(dfs[p[1]].cols)}
    IN  [kind |-> "DataFrame",
         value |-> [outer |-> IF gb = "column" THEN "field" ELSE "ticker",
                    keys |-> IF gb = "column"
                             THEN {p \in pairs : p[2] \in Range(FieldList)}
                             ELSE pairs,
                    src |-> dfs]]

\* BuildData without the single-ticker unwrapping of lines 208-209
BuildData_wrapped(ap, gb) ==
    IF ap THEN [exc |-> NoExc, data |-> Panel(gb)]
    ELSE IF DOMAIN dfs = {}
    THEN [exc |-> [exc |-> "ValueError", line |-> 197], data |-> NoData]
    ELSE IF gb = "column" /\ ~(Range(FieldList) \subseteq AllFields)
    THEN [exc |-> [exc |-> "KeyError", line |-> 202], data |-> NoData]
    ELSE [exc |-> NoExc, data |-> Concat(gb)]

\* lines 187-211: the value download returns, or the exception it raises
BuildData(ap, gb) ==
    LET combined ==
            IF ap THEN [exc |-> NoExc, data |-> Panel(gb)]
            ELSE IF DOMAIN dfs = {}
            THEN [exc |-> [exc |-> "ValueError", line |-> 197], data |-> NoData]
            ELSE IF gb = "column" /\ ~(Range(FieldList) \subseteq AllFields)
            THEN [exc |-> [exc |-> "KeyError", line |-> 202], data |-> NoData]
            ELSE [exc |-> NoExc, data |-> Concat(gb)]
    IN  IF combined.exc # NoExc THEN combined
        ELSE IF Len(tickers) = 1
        THEN IF tickers[1] \in DOMAIN dfs
             THEN [exc |-> NoExc, data |-> [kind |-> "table", value |-> dfs[tickers[1]]]]
             ELSE [exc |-> [exc |-> "KeyError", line |-> 209], data |-> NoData]
        ELSE combined

\* lines 183-211: report the failures, build the output and return it.
\* as_panel and group_by are arguments of download that nothing reads before
\* line 188, so their values are drawn here, where they are first read.
Build ==
    /\ pc = "build"
    /\ as_panel' \in BOOLEAN
    /\ group_by' \in {"column", "ticker"}
    /\ LET b == BuildData(as_panel', group_by')
       IN  /\ data' = b.data
           /\ raised' = b.exc
           /\ pc' = IF b.exc = NoExc THEN "returned" ELSE "raised"
    /\ lastGet' = NoGet
    /\ lastReq' = NoReq
    /\ UNCHANGED <<now, cacheVars, tickers, auto_adjust, progress, dfs,
                   round1_failed_tickers, round2_failed_tickers, i, j, crumb,
                   cookie, elapsed, outcomes, parseVars,
                   histVars>>

Next ==
    \/ Wait
    \/ GetCrumbCall
    \/ Download
    \/ FirstGet
    \/ FirstTry
    \/ RetryGet
    \/ RetryTry
    \/ Round2Get
    \/ Round2Try
    \/ Build

Spec == Init /\ [][Next]_vars

(***************************************************************************)
(* parse_ticker_csv on its own                                             *)
(***************************************************************************)
CsvDates == {"2020-01-02", "2020-01-03"}

\* a well-formed row, with the position k (2..7) replaced by x
RowWith(k, x) ==
    [n \in 1..7 |-> IF n = k THEN x ELSE <<"2020-01-03", "4", "4", "2", "4", "2", "1000">>[n]]

CsvRows ==
    {<<d, "4", "4", "2", ca[1], ca[2], v>> :
        d \in CsvDates, ca \in {<<"4", "2">>, <<"2", "4">>, <<"4", "4">>}, v \in {"0", "1000"}}
    \cup {RowWith(k, x) : k \in 2..7, x \in {"null", ""}}
    \cup {RowWith(3, "abc")}
    \cup {<<"2020-01-03", "4", "4", "2", "4", "2">>,
          <<"2020-01-03", "4", "4", "2", "4", "2", "1000", "1">>}

\* what the server can answer: nothing, its error document, or history in
\* the documented column layout
CsvBodies ==
    {[header |-> <<>>, rows |-> <<>>], ErrorBody}
    \cup {[header |-> StdHeader, rows |-> r] : r \in SeqsUpTo(CsvRows, MaxRows)}

InitParse ==
    /\ now = 0
    /\ YAHOO_COOKIE = ""
    /\ YAHOO_CRUMB = ""
    /\ YAHOO_CHECKED = None
    /\ pc = "parse"
    /\ tickers = <<>>
    /\ as_panel = TRUE
    /\ group_by = "column"
    /\ auto_adjust = FALSE
    /\ progress = TRUE
    /\ dfs = [t \in {} |-> NoTable]
    /\ round1_failed_tickers = <<>>
    /\ round2_failed_tickers = <<>>
    /\ i = 0
    /\ j = 0
    /\ crumb = ""
    /\ cookie = ""
    /\ elapsed = None
    /\ data = NoData
    /\ raised = NoExc
    /\ lastGet = NoGet
    /\ lastReq = NoReq
    /\ outcomes = {}
    /\ status = <<>>
    /\ failedIdx = <<>>
    /\ round2Refresh = <<>>
    /\ csv_str \in CsvBodies
    /\ csv_adjust \in BOOLEAN
    /\ df = NoTable

\* df = parse_ticker_csv(csv_str, auto_adjust)
ParseCall ==
    /\ pc = "parse"
    /\ df' = parse_ticker_csv(csv_str, csv_adjust)
    /\ pc' = "parsed"
    /\ UNCHANGED <<now, cacheVars, argVars, dfs, round1_failed_tickers,
                   round2_failed_tickers, i, j, crumb, cookie, elapsed, data,
                   raised, lastGet, lastReq, outcomes, csv_str, csv_adjust,
                   histVars>>

NextParse == ParseCall

SpecParse == InitParse /\ [][NextParse]_vars

(***************************************************************************)
(* Properties                                                              *)
(***************************************************************************)
\* both loops of download are over: it is about to build its output, has
\* returned, or has raised while building
LoopsDone ==
    \/ pc \in {"build", "returned"}
    \/ pc = "raised" /\ raised.line > 169

Has(t, stage, ok) == Outcome(t, stage, ok) \in outcomes

\* C1: at the end of download every requested ticker is in exactly one of
\* the keys of dfs and round2_failed_tickers, for every non-empty ticker
\* list, lists that repeat a symbol included
C1_ExactlyOne ==
    LoopsDone =>
        \A k \in 1..Len(tickers) :
            (tickers[k] \in DOMAIN dfs) # (tickers[k] \in Range(round2_failed_tickers))

C3_NoStaleRequest ==
    lastReq.issued => lastReq.age # None /\ lastReq.age < YAHOO_TTL

\* C4: a ticker whose first pass failed (first attempt and immediate retry)
\* and whose round-2 retry succeeded is, at the end of download, a key of
\* dfs and not in round2_failed_tickers.  For a symbol requested more than
\* once, "its round-2 retry succeeded" is read over all of its round-2
\* retries.
C4_Round2Success ==
    LoopsDone =>
        \A t \in Range(tickers) :
            (Has(t, "pass1", FALSE) /\ Has(t, "round2", TRUE) /\ ~Has(t, "round2", FALSE))
                => t \in DOMAIN dfs /\ t \notin Range(round2_failed_tickers)

\* download is over and some ticker went through two failures and a
\* successful round-2 retry
C4_Witness ==
    /\ LoopsDone
    /\ \E t \in Range(tickers) :
        Has(t, "pass1", FALSE) /\ Has(t, "round2", TRUE) /\ ~Has(t, "round2", FALSE)

\* the output addresses nothing under ticker t
AbsentFromOutput(t) ==
    /\ data.kind = "table" => Len(tickers) = 1 /\ tickers[1] # t
    /\ data.kind \in {"Panel", "DataFrame"} =>
        /\ t \notin DOMAIN data.value.src
        /\ \A key \in data.value.keys : key[1] # t

\* C5: a ticker all of whose attempts failed is in round2_failed_tickers,
\* is no key of dfs and has no entry in the output built from dfs
C5_AllFailedAbsent ==
    LoopsDone =>
        \A t \in Range(tickers) :
            (Has(t, "pass1", FALSE) /\ Has(t, "round2", FALSE)
             /\ ~Has(t, "pass1", TRUE) /\ ~Has(t, "round2", TRUE))
                => /\ t \in Range(round2_failed_tickers)
                   /\ t \notin DOMAIN dfs
                   /\ AbsentFromOutput(t)

\* download returned a combined output for a batch in which one ticker
\* failed all its attempts and another succeeded
C5_Witness ==
    /\ pc = "returned"
    /\ data.kind \in {"Panel", "DataFrame"}
    /\ DOMAIN dfs # {}
    /\ \E t \in Range(tickers) :
        /\ Has(t, "pass1", FALSE) /\ Has(t, "round2", FALSE)
        /\ ~Has(t, "pass1", TRUE) /\ ~Has(t, "round2", TRUE)

\* C6: a request for exactly one ticker goes through the same first pass
\* and round 2 and, whatever as_panel and group_by are, returns the table
\* stored for that ticker itself; it fails only if the ticker has no table
C6_SingleUnwrapped ==
    Len(tickers) = 1 =>
        /\ pc = "returned" => data = [kind |-> "table", value |-> dfs[tickers[1]]]
        /\ (pc = "raised" /\ raised.line > 169) => tickers[1] \notin DOMAIN dfs

\* a single ticker, saved by its round-2 retry, was returned from the
\* DataFrame branch grouped by ticker
C6_Witness ==
    /\ pc = "returned"
    /\ Len(tickers) = 1
    /\ ~as_panel
    /\ group_by = "ticker"
    /\ Has(tickers[1], "round2", TRUE)

\* C7: a failed fetch or parse of a ticker never leaves download as an
\* exception and never cuts the batch short: an exception leaves download
\* only from get_yahoo_crumb (lines 141, 169) or from building the output
\* of a batch without any success, and once the loops are over every
\* requested ticker has been through its first pass
C7_FetchFailureContained ==
    /\ pc = "raised" =>
        \/ raised.line \in {141, 169}
        \/ raised.line \in {197, 209} /\ DOMAIN dfs = {}
    /\ LoopsDone =>
        \A k \in 1..Len(tickers) :
            Has(tickers[k], "pass1", TRUE) \/ Has(tickers[k], "pass1", FALSE)
    /\ (LoopsDone /\ pc # "build" /\ DOMAIN dfs # {}) => pc = "returned"

\* download returned although a ticker failed all three attempts before a
\* later ticker succeeded
C7_Witness ==
    /\ pc = "returned"
    /\ Len(tickers) = 2
    /\ Has(tickers[1], "pass1", FALSE) /\ Has(tickers[1], "round2", FALSE)
    /\ ~Has(tickers[1], "pass1", TRUE)
    /\ Has(tickers[2], "pass1", TRUE)

\* C8: when no requested ticker succeeded download ends in an exception,
\* for one ticker and for several, with as_panel on and off
C8_TotalFailureRaises ==
    pc = "returned" => DOMAIN dfs # {}

\* C9: a failure to obtain credentials never leaves download as an
\* exception, neither at the get before a first attempt (line 141) nor at
\* the forced refresh that opens round 2 (line 169)
C9_CredentialFailureContained ==
    ~(pc = "raised" /\ raised.line \in {141, 169})

\* the value a parsed row holds, per column, given the source row it was
\* read from
FromSource(row, src, adjust) ==
    /\ row.idx = to_datetime(src[1])
    /\ row.cell["Volume"] = to_numeric(src[7])
    /\ IF adjust
       THEN row.cell["Close"] = to_numeric(src[6])
       ELSE /\ row.cell["Open"] = to_numeric(src[2])
            /\ row.cell["High"] = to_numeric(src[3])
            /\ row.cell["Low"] = to_numeric(src[4])
            /\ row.cell["Close"] = to_numeric(src[5])
            /\ row.cell["Adj Close"] = to_numeric(src[6])

WellFormedRow(r) ==
    /\ Len(r) = 7
    /\ \A k \in 2..6 : r[k] = "null" \/ IsNumeral(r[k])
    /\ r[7] \in {"null", ""} \/ IsNumeral(r[7])

HasNullMarker(r) == \E k \in 2..Len(r) : r[k] = "null"

\* C11: parse_ticker_csv returns exactly the input rows that have no null
\* marker in any field, in input order and with their fields: a row with a
\* null marker is excluded as a whole, every row without one is kept
C11_ExactlyNonNull ==
    (/\ pc = "parsed"
     /\ csv_str.header = StdHeader
     /\ \A k \in 1..Len(csv_str.rows) : WellFormedRow(csv_str.rows[k])) =>
        LET kept == SelectSeq(csv_str.rows, LAMBDA r : ~HasNullMarker(r))
        IN  /\ df.ok
            /\ Len(df.rows) = Len(kept)
            /\ \A n \in 1..Len(kept) : FromSource(df.rows[n], kept[n], csv_adjust)

\* the moves of an entry the lifecycle allows; "Retrying" is Pending with the
\* first attempt failed and the immediate retry still to come
Transitions ==
    {<<"Pending", "Retrying">>, <<"Pending", "Succeeded">>,
     <<"Retrying", "Succeeded">>, <<"Retrying", "FailedRound1">>,
     <<"FailedRound1", "Succeeded">>, <<"FailedRound1", "FailedRound2">>}

\* the state a request of a kind needs its entry in, and leaves it in
Before(kind) ==
    IF kind = "first" THEN "Pending"
    ELSE IF kind = "retry" THEN "Retrying"
    ELSE "FailedRound1"

After(kind) ==
    IF kind = "first" THEN {"Succeeded", "Retrying"}
    ELSE IF kind = "retry" THEN {"Succeeded", "FailedRound1"}
    ELSE {"Succeeded", "FailedRound2"}

\* C12: an entry of the ticker list moves only Pending -> Succeeded,
\* Pending -> FailedRound1 -> Succeeded or Pending -> FailedRound1 ->
\* FailedRound2. Every request is a first attempt to a Pending entry, an
\* immediate retry to an entry whose first attempt failed, or a round-2 retry
\* to an entry in FailedRound1, and each moves its entry on, so an entry gets
\* at most three requests and none once it is Succeeded or FailedRound2
C12_EntryLifecycle ==
    [][pc # "idle" =>
        /\ \A k \in DOMAIN status :
            status'[k] # status[k] => <<status[k], status'[k]>> \in Transitions
        /\ IF lastReq'.issued
           THEN LET k == lastReq'.entry
                IN  /\ k \in DOMAIN status
                    /\ lastReq'.ticker = tickers[k]
                    /\ status[k] = Before(lastReq'.kind)
                    /\ status'[k] \in After(lastReq'.kind)
                    /\ \A m \in DOMAIN status \ {k} : status'[m] = status[m]
           ELSE \A k \in DOMAIN status :
                    status'[k] # status[k] =>
                        <<status[k], status'[k]>> = <<"Retrying", "FailedRound1">>]_vars

\* a batch ended with one entry recovered in round 2 and another failed for
\* good after three requests
C12_Witness ==
    /\ pc = "returned"
    /\ \E k, m \in DOMAIN status :
        /\ status[k] = "FailedRound2"
        /\ status[m] = "Succeeded"
        /\ m \in Range(failedIdx)

\* C13: requests go out one at a time and in order. A first attempt or an
\* immediate retry of an entry finds every earlier entry through its first
\* pass (immediate retry included) and every later entry untouched; a round-2
\* retry finds no entry still in its first pass, every entry that entered
\* FailedRound1 before its own already retried, and every later one not yet
C13_AttemptOrder ==
    lastReq.issued =>
        LET k == lastReq.entry
        IN  IF lastReq.kind \in {"first", "retry"}
            THEN /\ \A m \in 1..(k - 1) : status[m] \in {"Succeeded", "FailedRound1"}
                 /\ \A m \in (k + 1)..Len(tickers) : status[m] = "Pending"
            ELSE /\ \A m \in DOMAIN status : status[m] \notin {"Pending", "Retrying"}
                 /\ \E p \in 1..Len(failedIdx) :
                     /\ failedIdx[p] = k
                     /\ \A q \in 1..(p - 1) :
                         status[failedIdx[q]] \in {"Succeeded", "FailedRound2"}
                     /\ \A q \in (p + 1)..Len(failedIdx) :
                         status[failedIdx[q]] = "FailedRound1"

\* the round-2 retry of the second of two failed entries has just been sent
C13_Witness ==
    /\ lastReq.issued
    /\ lastReq.kind = "round2"
    /\ Len(failedIdx) = 2
    /\ lastReq.entry = failedIdx[2]

FirstPassOver == \A k \in DOMAIN status : status[k] \notin {"Pending", "Retrying"}

\* where the forced refreshes of a batch stand: at most one made at line
\* 169, only after the first pass and with an entry in FailedRound1, and made
\* before any round-2 retry and before the batch ends with a failed entry
Round2RefreshOnce ==
    /\ Len(round2Refresh) <= 1
    /\ Len(round2Refresh) = 1 => FirstPassOver /\ failedIdx # <<>>
    /\ (pc \in {"round2_try", "build", "returned"} /\ failedIdx # <<>>) =>
           Len(round2Refresh) = 1
    /\ (lastReq.issued /\ lastReq.kind = "round2") =>
           /\ Len(round2Refresh) = 1
           /\ round2Refresh[1].raised = ""
           /\ <<lastReq.crumb, lastReq.cookie>> = round2Refresh[1].ret

\* C14: within a batch a forced refresh is made right after each failed first
\* attempt and right before that entry's immediate retry, and once more after
\* the first pass exactly if an entry is in FailedRound1; no other call in
\* the batch is forced, and every round-2 retry carries the pair that one
\* round-2 refresh returned
C14_ForcedRefreshes ==
    [][pc # "idle" =>
        /\ (lastReq'.issued /\ lastReq'.kind = "retry") =>
               /\ lastGet.called /\ lastGet.site = "retry"
               /\ lastGet.force /\ lastGet.requests = 1
               /\ <<lastReq'.crumb, lastReq'.cookie>> = <<YAHOO_CRUMB, YAHOO_COOKIE>>
        /\ (lastReq.issued /\ lastReq.kind = "first" /\ status[lastReq.entry] = "Retrying") =>
               lastGet'.called /\ lastGet'.site = "retry"
        /\ lastGet'.called =>
               /\ lastGet'.force <=> lastGet'.site \in {"retry", "round2"}
               /\ lastGet'.force => lastGet'.requests = 1
               /\ lastGet'.site = "retry" =>
                      lastReq.issued /\ lastReq.kind = "first" /\ status[lastReq.entry] = "Retrying"
               /\ lastGet'.site = "round2" => round2Refresh = <<>> /\ Len(round2Refresh') = 1
        /\ Round2RefreshOnce']_vars

\* a round-2 retry went out with a pair that the round-2 refresh newly
\* obtained
C14_Witness ==
    /\ lastReq.issued
    /\ lastReq.kind = "round2"
    /\ Len(round2Refresh) = 1
    /\ lastReq.crumb # ""
    /\ <<lastReq.crumb, lastReq.cookie>> = round2Refresh[1].ret
    /\ Len(failedIdx) = 2

CacheGlobals == {"_YAHOO_CRUMB_", "_YAHOO_COOKIE_", "_YAHOO_CHECKED_"}

\* C15: the cache is never partially updated: a call of get_yahoo_crumb
\* replaces the token, the cookie and the time of the refresh together or
\* none of them, also when the response holds no crumb and when the refresh
\* fails part-way, so that the three always come from the same refresh
C15_AllOrNothing ==
    lastGet.called =>
        /\ lastGet.assigned \in {{}, CacheGlobals}
        /\ lastGet.assigned = {} => lastGet.unchanged
        /\ lastGet.requests = 0 => lastGet.assigned = {}

\* C16: a bootstrap response whose body has no line with a crumb raises
\* nothing and leaves the stored token as it was (empty if none was ever
\* found); get_yahoo_crumb still returns the pair of the stored token and the
\* cookie
C16_NoCrumbSoft ==
    [][(lastGet'.called /\ lastGet'.read /\ lastGet'.last = "") =>
          /\ lastGet'.raised = ""
          /\ YAHOO_CRUMB' = YAHOO_CRUMB
          /\ "_YAHOO_CRUMB_" \notin lastGet'.assigned
          /\ lastGet'.retNew
          /\ YAHOO_CHECKED = None => YAHOO_CRUMB' = ""]_vars

\* a refresh found no crumb and kept the token of an earlier refresh next to
\* a new cookie
C16_Witness ==
    /\ lastGet.called
    /\ lastGet.read
    /\ lastGet.last = ""
    /\ YAHOO_CRUMB # ""
    /\ ~lastGet.unchanged

\* C17: when lines of the bootstrap body match the crumb pattern, the token
\* stored and returned is that of the last matching line: the scan goes on
\* after a match, and lines without a match after it clear nothing
C17_LastMatchWins ==
    (lastGet.called /\ lastGet.read /\ lastGet.last # "") =>
        /\ YAHOO_CRUMB = lastGet.last
        /\ "_YAHOO_CRUMB_" \in lastGet.assigned
        /\ lastGet.retNew

\* a body with two matching lines that carry different crumbs was read
C17_Witness ==
    /\ lastGet.called
    /\ lastGet.read
    /\ lastGet.first # ""
    /\ lastGet.first # lastGet.last
    /\ YAHOO_CRUMB = lastGet.last

\* the number of pbar.animate() calls so far (ProgressBar.elapsed starts at 1)
Advances == elapsed - 1

\* C18: with progress reporting on, when the loops of a batch are over the
\* reporter has been advanced once for every requested ticker, be it
\* succeeded or failed for good, and never twice for one
C18_AdvancedOncePerTicker ==
    (LoopsDone /\ progress) => Advances = Len(tickers)

\* C19: a row whose volume is missing, the other fields present and without
\* null marker, is kept in the parsed table, with volume 0
C19_MissingVolumeZero ==
    (/\ pc = "parsed"
     /\ csv_str.header = StdHeader
     /\ \A k \in 1..Len(csv_str.rows) : WellFormedRow(csv_str.rows[k])) =>
        \A k \in 1..Len(csv_str.rows) :
            LET r == csv_str.rows[k]
            IN  (r[7] = "" /\ ~HasNullMarker(r)) =>
                    /\ df.ok
                    /\ \E n \in 1..Len(df.rows) :
                        /\ df.rows[n].idx = to_datetime(r[1])
                        /\ df.rows[n].cell["Volume"] = 0
                        /\ df.rows[n].cell["Close"] = to_numeric(IF csv_adjust THEN r[6] ELSE r[5])

\* C20: every refresh that runs to completion stamps the cache with its
\* time, also when it found no crumb. So from any state of the cache, that
\* left by a refresh without crumb included, a call that is not forced and
\* comes less than the ttl after the stamp makes no request and returns the
\* stored (stale or empty) token, and only a forced call or one at or past
\* the ttl makes a new request
C20_SoftFailureCached ==
    [][lastGet'.called =>
          /\ (lastGet'.requests = 1 /\ lastGet'.raised = "") =>
                 /\ YAHOO_CHECKED' = now'
                 /\ "_YAHOO_CHECKED_" \in lastGet'.assigned
                 /\ lastGet'.last = "" => YAHOO_CRUMB' = YAHOO_CRUMB
          /\ IF ~lastGet'.force /\ YAHOO_CHECKED # None /\ now - YAHOO_CHECKED < YAHOO_TTL
             THEN /\ lastGet'.requests = 0
                  /\ lastGet'.raised = ""
                  /\ lastGet'.retOld
                  /\ UNCHANGED cacheVars
             ELSE lastGet'.requests = 1]_vars

\* a call that was not forced was served the empty token from the cache,
\* some time after the refresh that stamped the cache without finding a crumb
C20_Witness ==
    /\ YAHOO_CRUMB = ""
    /\ YAHOO_CHECKED # None
    /\ lastGet.called
    /\ ~lastGet.force
    /\ lastGet.requests = 0
    /\ lastGet.age > 0

====
